---- MODULE Spec2Model ----
(***************************************************************************)
(* The reconciliation engine of train_conductor/modules/watcher.py:        *)
(* Watcher.reconcile_state and the operations it calls, full_reconcile,    *)
(* monitor_jobs, db_update_event_handler and the start-up sequence of      *)
(* Watcher.__init__, over a registry (Redis hashes) and an orchestrator    *)
(* (Kubernetes batch jobs).  Every remote call is one step.                *)
(***************************************************************************)
EXTENDS Integers, Sequences, FiniteSets, TLC

VARIABLES
    db,       \* registry: job_id -> hash (a partial function field -> string)
    k8s,      \* orchestrator: job name -> <<>> or <<job object>>
    pods,     \* orchestrator: job name -> sequence of the logs of its pods
    frame,    \* per thread: position and locals of the code it runs
    sweep,    \* per thread: locals of full_reconcile
    log,      \* per thread: remote calls of the current reconcile_state call
    h,        \* calls started so far; of direct calls: last arguments, last log,
              \* the record the last one that ended had seen, and the job_ids
              \* whose job the conductor has deleted and marked deleted, no
              \* external actor having written their record since
    faults,   \* number of transient API failures so far
    ext,      \* number of writes of external actors so far
    rv        \* the orchestrator's resource version counter and its horizon

vars == <<db, k8s, pods, frame, sweep, log, h, faults, ext, rv>>

\* ------------------------------------------------------------------ bounds
MaxCalls == 3
MaxFaults == 1
MaxExt == 2
MaxRv == 2

\* ------------------------------------------------------------------- data
JobIds == {"A", "B"}
Threads == {"main", "listener"}

TrainingStatus ==
    {"PLACEHOLDER_UNSET", "QUEUED", "PENDING", "RUNNING", "COMPLETED", "FAILED",
     "CANCELED"}
COMPLETED_STATES == {"COMPLETED", "FAILED", "CANCELED"}

\* A registry hash; a key with no field does not exist (read_record gives {}).
EmptyRec == [f \in {} |-> ""]
Truthy(d, f) == f \in DOMAIN d /\ d[f] # ""
write_field(d, f, v) == [k \in DOMAIN d \cup {f} |-> IF k = f THEN v ELSE d[k]]

generate_k8s_job_name(job_id) == "train-conductor-tuning-job" \o "." \o job_id
Names == {generate_k8s_job_name(j) : j \in JobIds}
JobIdOf(name) == CHOOSE j \in JobIds : generate_k8s_job_name(j) = name

target_namespace == "ns"
default_gpu == 1

\* The status block of a job, as the orchestrator moves it.
StatusBlocks ==
    {[start_time |-> FALSE, succeeded |-> 0, failed |-> 0],
     [start_time |-> TRUE, succeeded |-> 0, failed |-> 0],
     [start_time |-> TRUE, succeeded |-> 1, failed |-> 0],
     [start_time |-> TRUE, succeeded |-> 0, failed |-> 1]}

\* The mapper with the start_time test dropped.
k8s_job_status_to_enum_no_start(st) ==
    IF st.succeeded > 0 THEN "COMPLETED"
    ELSE IF st.failed > 0 THEN "FAILED" ELSE "QUEUED"

k8s_job_status_to_enum(st) ==
    IF st.start_time
    THEN IF st.succeeded > 0 THEN "COMPLETED"
         ELSE IF st.failed > 0 THEN "FAILED" ELSE "RUNNING"
    ELSE "QUEUED"

\* db_entry.get("status") turned into the enum (lines 107-111).
DbState(db_entry) ==
    IF Truthy(db_entry, "status") THEN db_entry["status"] ELSE "PLACEHOLDER_UNSET"

\* Python values of env_vars: the str "" or a dict (a set of key/value pairs).
PyStr == [kind |-> "str", items |-> {}]
PyDict(items) == [kind |-> "dict", items |-> items]

ParamBlobs == {"{\"num_gpus\": 2}", "{}", "{bad"}
\* json.loads on the blobs above: a dict, or an exception.
JsonLoads(blob) ==
    CASE blob = "{\"num_gpus\": 2}" -> [ok |-> TRUE, value |-> PyDict({<<"num_gpus", 2>>})]
      [] blob = "{}" -> [ok |-> TRUE, value |-> PyDict({})]
      [] OTHER -> [ok |-> FALSE, value |-> PyStr]

\* dict.get(key) with None shown as 0 (its only use is "get(...) or default").
DictGet(d, key) ==
    IF \E p \in d.items : p[1] = key
    THEN (CHOOSE p \in d.items : p[1] = key)[2]
    ELSE 0

\* _obj_to_txt: base64 of the pickle of the object, kept symbolic.
obj_to_txt(obj) == <<"base64", <<"pickle", obj>>>>

\* creation_timestamp.strftime("%m/%d/%Y %H:%M:%S")
Digit == <<"0", "1", "2", "3", "4", "5", "6", "7", "8", "9">>
TwoDigits(n) == Digit[((n \div 10) % 10) + 1] \o Digit[(n % 10) + 1]
FourDigits(n) == TwoDigits(n \div 100) \o TwoDigits(n % 100)
Strftime(ts) ==
    TwoDigits(ts.month) \o "/" \o TwoDigits(ts.day) \o "/" \o FourDigits(ts.year)
        \o " " \o TwoDigits(ts.hour) \o ":" \o TwoDigits(ts.minute) \o ":"
        \o TwoDigits(ts.second)
CreationTimestamp ==
    [year |-> 2024, month |-> 3, day |-> 9, hour |-> 7, minute |-> 5, second |-> 30]

\* The job object create_job submits (lines 316-380), as the orchestrator stores it.
JobBody(job_id, gpus, env_vars) ==
    [name |-> generate_k8s_job_name(job_id),
     job_id |-> job_id,
     namespace |-> target_namespace,
     gpus |-> gpus,
     env |-> obj_to_txt(env_vars),
     creation_timestamp |-> CreationTimestamp,
     status |-> [start_time |-> FALSE, succeeded |-> 0, failed |-> 0]]

RECURSIVE ConcatLogs(_)
\* get_job_logs: the pods' logs, concatenated in iteration order.
ConcatLogs(ps) == IF ps = <<>> THEN "" ELSE Head(ps) \o ConcatLogs(Tail(ps))

\* ------------------------------------------------------------ call frames
IdleFrame ==
    [pc |-> "idle", caller |-> "", job_id |-> "", db_entry |-> EmptyRec,
     k8s_entry |-> <<>>, dj_name |-> "", dj_ret |-> "", gpus |-> 0,
     env |-> PyStr, created |-> <<>>, logs |-> "",
     e_rec |-> EmptyRec, e_job |-> <<>>]

\* orphans, reaped, keys, listed and visited are history: the listed jobs that
\* had no record when the sweep listed them, the names the sweep has issued a
\* delete for, the job_ids that had a record and the job list when the sweep
\* listed the jobs, and the reconcile_state calls the sweep has made, in order.
IdleSweep ==
    [caller |-> "", resource_version |-> 0, job_dict |-> [j \in {} |-> <<>>],
     remaining |-> {}, batch |-> [j \in {} |-> EmptyRec],
     orphans |-> {}, reaped |-> {},
     keys |-> {}, listed |-> [j \in {} |-> <<>>], visited |-> <<>>]

\* One reconcile_state call of a sweep: for which job_id, with which job as hint,
\* from which loop.
Visit(job_id, hint, loop) == [job_id |-> job_id, hint |-> hint, loop |-> loop]

Call(op, key, val, ok) == [op |-> op, key |-> key, val |-> val, ok |-> ok]

Done(f) == [f EXCEPT !.pc = "rs_done"]

\* delete_job(job_id, job_name, namespace): go to its first remote call.
DeleteJob(f, job_name, ret) ==
    [f EXCEPT !.pc = "dj_call", !.dj_name = job_name, !.dj_ret = ret]

\* Lines 176-179: capture and reap a terminal job not yet marked deleted.
FinaliseNoCapture(f) ==
    IF k8s_job_status_to_enum(f.k8s_entry[1].status) \in COMPLETED_STATES
       /\ ~Truthy(f.db_entry, "deleted")
    THEN DeleteJob(f, f.k8s_entry[1].name, "rs_done")
    ELSE Done(f)

Finalise(f) ==
    IF k8s_job_status_to_enum(f.k8s_entry[1].status) \in COMPLETED_STATES
       /\ ~Truthy(f.db_entry, "deleted")
    THEN [f EXCEPT !.pc = "cap_logs"]
    ELSE Done(f)

\* Lines 155-175 up to the first remote call.
UpdateNoCancel(f) ==
    IF DbState(f.db_entry) # k8s_job_status_to_enum(f.k8s_entry[1].status)
    THEN [f EXCEPT !.pc = "rs_write_status"]
    ELSE Finalise(f)

Update(f) ==
    IF DbState(f.db_entry) # k8s_job_status_to_enum(f.k8s_entry[1].status)
    THEN IF DbState(f.db_entry) = "CANCELED"
         THEN DeleteJob(f, f.k8s_entry[1].name, "rs_done")
         ELSE [f EXCEPT !.pc = "rs_write_status"]
    ELSE Finalise(f)

\* reconcile_state with the early return of lines 113-114 dropped.
DecideNoQuiescent(f) ==
    IF f.k8s_entry = <<>> THEN [f EXCEPT !.pc = "rs_read_job"] ELSE Update(f)

\* Lines 107-116 up to the first remote call.
Decide(f) ==
    IF DbState(f.db_entry) \in COMPLETED_STATES /\ Truthy(f.db_entry, "deleted")
       /\ f.k8s_entry = <<>>
    THEN Done(f)
    ELSE IF f.k8s_entry = <<>> THEN [f EXCEPT !.pc = "rs_read_job"] ELSE Update(f)

\* Lines 136-152: decode the parameters and evaluate create_job's arguments;
\* env_vars.get on the str "" raises AttributeError.
Launch(f) ==
    LET params == IF "parameters" \in DOMAIN f.db_entry
                  THEN f.db_entry["parameters"] ELSE ""
        env_vars == IF params # "" /\ JsonLoads(params).ok
                    THEN JsonLoads(params).value ELSE PyStr
    IN  IF env_vars.kind # "dict"
        THEN [f EXCEPT !.pc = "rs_raised"]
        ELSE [f EXCEPT !.pc = "cj_create", !.env = env_vars,
                       !.gpus = IF DictGet(env_vars, "num_gpus") # 0
                                THEN DictGet(env_vars, "num_gpus") ELSE default_gpu]

\* Lines 94-105 up to the first remote call.
Enter(f) ==
    IF f.db_entry = EmptyRec THEN [f EXCEPT !.pc = "rs_read_record"] ELSE Decide(f)

\* delete_job returned: back in reconcile_state.
AfterDelete(f) == IF f.dj_ret = "rs_decide" THEN Decide(f) ELSE Done(f)

\* A transient API failure may hit a call that would otherwise succeed.
FaultOk(fault, would_succeed) == fault => (would_succeed /\ faults < MaxFaults)
Count(fault) == IF fault THEN faults + 1 ELSE faults

\* --------------------------------------------------- reconcile_state steps
SetFrame(t, f) == frame' = [frame EXCEPT ![t] = f]
Logged(t, c) == log' = [log EXCEPT ![t] = Append(@, c)]

\* The frame of a call reconcile_state(job_id, db_entry, k8s_entry) at its first
\* remote call; e_rec and e_job remember the two stores as a direct call began.
BeginCall(caller, job_id, db_entry, k8s_entry) ==
    Enter([IdleFrame EXCEPT !.caller = caller, !.job_id = job_id,
                            !.db_entry = db_entry, !.k8s_entry = k8s_entry,
                            !.e_rec = IF caller = "direct" THEN db[job_id] ELSE EmptyRec,
                            !.e_job = IF caller = "direct"
                                      THEN k8s[generate_k8s_job_name(job_id)] ELSE <<>>])

\* Lines 97-105: no record on either read: reap by the derived name, then go on.
Orphan(f) ==
    IF f.db_entry = EmptyRec
    THEN DeleteJob(f, generate_k8s_job_name(f.job_id), "rs_decide")
    ELSE Decide(f)

\* Line 95: db_entry = self.db_client.read_record(job_id)
RsReadRecord(t) ==
    LET f == frame[t] IN
    /\ f.pc = "rs_read_record"
    /\ SetFrame(t, Orphan([f EXCEPT !.db_entry = db[f.job_id]]))
    /\ Logged(t, Call("read_record", f.job_id, "", TRUE))
    /\ UNCHANGED <<db, k8s, pods, sweep, h, faults, ext, rv>>

\* Line 272: delete_namespaced_job(name, namespace, propagation_policy="Background");
\* any exception is caught at line 277.
DjCall(t) ==
    LET f == frame[t]
        exists == k8s[f.dj_name] # <<>>
    IN  /\ f.pc = "dj_call"
        /\ \E fault \in BOOLEAN :
              /\ FaultOk(fault, exists)
              /\ faults' = Count(fault)
              /\ k8s' = IF exists /\ ~fault THEN [k8s EXCEPT ![f.dj_name] = <<>>] ELSE k8s
              /\ SetFrame(t, IF exists /\ ~fault THEN [f EXCEPT !.pc = "dj_write"]
                             ELSE AfterDelete(f))
              /\ Logged(t, Call("delete_job", f.dj_name, "Background", exists /\ ~fault))
        /\ sweep' = IF sweep[t].caller # ""
                     THEN [sweep EXCEPT ![t].reaped = @ \cup {f.dj_name}] ELSE sweep
        /\ UNCHANGED <<db, pods, h, ext, rv>>

\* Line 276: write_field(job_id, "deleted", "1")
DjWrite(t) ==
    LET f == frame[t] IN
    /\ f.pc = "dj_write"
    /\ db' = [db EXCEPT ![f.job_id] = write_field(@, "deleted", "1")]
    /\ SetFrame(t, AfterDelete(f))
    /\ Logged(t, Call("write_field", "deleted", "1", TRUE))
    /\ h' = [h EXCEPT !.reaped = @ \cup {f.job_id}]
    /\ UNCHANGED <<k8s, pods, sweep, faults, ext, rv>>

\* Lines 122-153: read_namespaced_job raised ApiException.
JobNotFound(f) ==
    IF DbState(f.db_entry) \in COMPLETED_STATES
    THEN IF ~Truthy(f.db_entry, "deleted") THEN [f EXCEPT !.pc = "rs_settle"] ELSE Done(f)
    ELSE Launch(f)

\* Lines 117-121: k8s_entry = read_namespaced_job(namespace, derived name)
RsReadJob(t) ==
    LET f == frame[t]
        name == generate_k8s_job_name(f.job_id)
        exists == k8s[name] # <<>>
    IN  /\ f.pc = "rs_read_job"
        /\ \E fault \in BOOLEAN :
              /\ FaultOk(fault, exists)
              /\ faults' = Count(fault)
              /\ SetFrame(t, IF exists /\ ~fault
                             THEN Update([f EXCEPT !.k8s_entry = k8s[name]])
                             ELSE JobNotFound(f))
              /\ Logged(t, Call("read_job", name, "", exists /\ ~fault))
        /\ UNCHANGED <<db, k8s, pods, sweep, h, ext, rv>>

\* Line 129: write_field(job_id, "deleted", "1")
RsSettle(t) ==
    LET f == frame[t] IN
    /\ f.pc = "rs_settle"
    /\ db' = [db EXCEPT ![f.job_id] = write_field(@, "deleted", "1")]
    /\ SetFrame(t, Done(f))
    /\ Logged(t, Call("write_field", "deleted", "1", TRUE))
    /\ UNCHANGED <<k8s, pods, sweep, h, faults, ext, rv>>

\* create_job with the early return of line 392 dropped: the status is written
\* after a failed create as well.
CjCreateNoReturn(t) ==
    LET f == frame[t]
        name == generate_k8s_job_name(f.job_id)
        free == k8s[name] = <<>>
        job == JobBody(f.job_id, f.gpus, f.env)
    IN  /\ f.pc = "cj_create"
        /\ \E fault \in BOOLEAN :
              /\ FaultOk(fault, free)
              /\ faults' = Count(fault)
              /\ k8s' = IF free /\ ~fault THEN [k8s EXCEPT ![name] = <<job>>] ELSE k8s
              /\ SetFrame(t, IF free /\ ~fault
                             THEN [f EXCEPT !.pc = "cj_w_ts", !.created = <<job>>]
                             ELSE [f EXCEPT !.pc = "cj_w_status"])
              /\ Logged(t, Call("create_job", name, "", free /\ ~fault))
        /\ UNCHANGED <<db, pods, sweep, h, ext, rv>>

\* Lines 382-392: create_namespaced_job; rejected when the name is taken.
CjCreate(t) ==
    LET f == frame[t]
        name == generate_k8s_job_name(f.job_id)
        free == k8s[name] = <<>>
        job == JobBody(f.job_id, f.gpus, f.env)
    IN  /\ f.pc = "cj_create"
        /\ \E fault \in BOOLEAN :
              /\ FaultOk(fault, free)
              /\ faults' = Count(fault)
              /\ k8s' = IF free /\ ~fault THEN [k8s EXCEPT ![name] = <<job>>] ELSE k8s
              /\ SetFrame(t, IF free /\ ~fault
                             THEN [f EXCEPT !.pc = "cj_w_ts", !.created = <<job>>]
                             ELSE Done(f))
              /\ Logged(t, Call("create_job", name, "", free /\ ~fault))
        /\ UNCHANGED <<db, pods, sweep, h, ext, rv>>

\* One write_field of create_job, then on to pc `next`.
CjWrite(t, pc, field, value, next) ==
    LET f == frame[t] IN
    /\ f.pc = pc
    /\ db' = [db EXCEPT ![f.job_id] = write_field(@, field, value)]
    /\ SetFrame(t, [f EXCEPT !.pc = next])
    /\ Logged(t, Call("write_field", field, value, TRUE))
    /\ UNCHANGED <<k8s, pods, sweep, h, faults, ext, rv>>

\* Lines 395-399
CjWriteTs(t) ==
    /\ frame[t].pc = "cj_w_ts"
    /\ CjWrite(t, "cj_w_ts", "submission_timestamp",
               Strftime(frame[t].created[1].creation_timestamp), "cj_w_name")
\* Line 400
CjWriteName(t) ==
    CjWrite(t, "cj_w_name", "job_name", generate_k8s_job_name(frame[t].job_id), "cj_w_ns")
\* Line 401
CjWriteNs(t) ==
    /\ frame[t].pc = "cj_w_ns"
    /\ CjWrite(t, "cj_w_ns", "namespace", frame[t].created[1].namespace, "cj_w_status")
\* Line 402
CjWriteStatus(t) == CjWrite(t, "cj_w_status", "status", "PENDING", "rs_done")

\* Line 175: write_field(job_id, "status", actual_state.name)
RsWriteStatus(t) ==
    LET f == frame[t] IN
    /\ f.pc = "rs_write_status"
    /\ db' = [db EXCEPT ![f.job_id] =
                write_field(@, "status", k8s_job_status_to_enum(f.k8s_entry[1].status))]
    /\ SetFrame(t, Finalise(f))
    /\ Logged(t, Call("write_field", "status",
                      k8s_job_status_to_enum(f.k8s_entry[1].status), TRUE))
    /\ UNCHANGED <<k8s, pods, sweep, h, faults, ext, rv>>

\* Lines 182, 185-198: list the job's pods and read their logs.
CapLogs(t) ==
    LET f == frame[t] IN
    /\ f.pc = "cap_logs"
    /\ SetFrame(t, [f EXCEPT !.pc = "cap_write",
                             !.logs = ConcatLogs(pods[f.k8s_entry[1].name])])
    /\ Logged(t, Call("list_pods", "job-name=" \o f.k8s_entry[1].name, "", TRUE))
    /\ UNCHANGED <<db, k8s, pods, sweep, h, faults, ext, rv>>

\* Line 183, then line 179: write_field(job_id, "errors", logs); delete_job(...)
CapWrite(t) ==
    LET f == frame[t] IN
    /\ f.pc = "cap_write"
    /\ db' = [db EXCEPT ![f.job_id] = write_field(@, "errors", f.logs)]
    /\ SetFrame(t, DeleteJob(f, f.k8s_entry[1].name, "rs_done"))
    /\ Logged(t, Call("write_field", "errors", f.logs, TRUE))
    /\ UNCHANGED <<k8s, pods, sweep, h, faults, ext, rv>>

\* The steps inside reconcile_state, create_job, delete_job, capture_failed_state.
RsStep(t) ==
    \/ RsReadRecord(t) \/ DjCall(t) \/ DjWrite(t) \/ RsReadJob(t) \/ RsSettle(t)
    \/ CjCreate(t) \/ CjWriteTs(t) \/ CjWriteName(t) \/ CjWriteNs(t)
    \/ CjWriteStatus(t) \/ RsWriteStatus(t) \/ CapLogs(t) \/ CapWrite(t)

\* ---------------------------------------------------------- full_reconcile
Restrict(fn, S) == [x \in S |-> fn[x]]

\* full_reconcile() is called: on to its first remote call.
BeginSweep(t, caller) ==
    /\ SetFrame(t, [IdleFrame EXCEPT !.pc = "fr_list"])
    /\ sweep' = [sweep EXCEPT ![t] = [IdleSweep EXCEPT !.caller = caller]]

\* Lines 245-252: list the jobs, keep the list's resource version, index by job_id.
FrList(t) ==
    LET listed == {j \in JobIds : k8s[generate_k8s_job_name(j)] # <<>>} IN
    /\ frame[t].pc = "fr_list"
    /\ sweep' = [sweep EXCEPT ![t] =
                   [@ EXCEPT !.resource_version = rv.cur,
                             !.job_dict = [j \in listed |-> k8s[generate_k8s_job_name(j)]],
                             !.remaining = JobIds,
                             !.orphans = {j \in listed : db[j] = EmptyRec},
                             !.keys = {j \in JobIds : db[j] # EmptyRec},
                             !.listed = [j \in listed |-> k8s[generate_k8s_job_name(j)]]]]
    /\ SetFrame(t, [frame[t] EXCEPT !.pc = "fr_loop"])
    /\ UNCHANGED <<db, k8s, pods, log, h, faults, ext, rv>>

\* Lines 237-241: one iterate_entries batch and the read of its values.
FrScan(t) ==
    /\ frame[t].pc = "fr_loop"
    /\ DOMAIN sweep[t].batch = {}
    /\ sweep[t].remaining # {}
    /\ \E S \in SUBSET sweep[t].remaining :
          /\ S # {}
          /\ sweep' = [sweep EXCEPT ![t] =
                         [@ EXCEPT !.remaining = @ \ S,
                                   !.batch = [j \in {i \in S : db[i] # EmptyRec} |-> db[j]]]]
    /\ UNCHANGED <<db, k8s, pods, frame, log, h, faults, ext, rv>>

\* Lines 254-258: the log line (str + None raises TypeError), then
\* reconcile_state(job_id, db_entry, job_dict.pop(job_id, None)).
FrYield(t) ==
    /\ frame[t].pc = "fr_loop"
    /\ \E j \in DOMAIN sweep[t].batch :
          LET rec == sweep[t].batch[j]
              hint == IF j \in DOMAIN sweep[t].job_dict THEN sweep[t].job_dict[j] ELSE <<>>
          IN  /\ sweep' = [sweep EXCEPT ![t] =
                             [@ EXCEPT !.batch = Restrict(@, DOMAIN @ \ {j}),
                                       !.job_dict = IF "status" \in DOMAIN rec
                                                    THEN Restrict(@, DOMAIN @ \ {j}) ELSE @,
                                       !.visited = IF "status" \in DOMAIN rec
                                                   THEN Append(@, Visit(j, hint, "scan"))
                                                   ELSE @]]
              /\ SetFrame(t, IF "status" \in DOMAIN rec
                             THEN BeginCall("fr", j, rec, hint)
                             ELSE [IdleFrame EXCEPT !.pc = "fr_raised"])
              /\ log' = [log EXCEPT ![t] = <<>>]
    /\ UNCHANGED <<db, k8s, pods, h, faults, ext, rv>>

\* Lines 261-264: a listed job the scan did not pair: read its record, reconcile.
FrResidual(t) ==
    /\ frame[t].pc = "fr_loop"
    /\ DOMAIN sweep[t].batch = {}
    /\ sweep[t].remaining = {}
    /\ \E j \in DOMAIN sweep[t].job_dict :
          /\ sweep' = [sweep EXCEPT ![t] =
                         [@ EXCEPT !.job_dict = Restrict(@, DOMAIN @ \ {j}),
                                   !.visited = Append(@, Visit(sweep[t].job_dict[j][1].job_id,
                                                               sweep[t].job_dict[j],
                                                               "residual"))]]
          /\ SetFrame(t, BeginCall("fr", sweep[t].job_dict[j][1].job_id,
                                   db[sweep[t].job_dict[j][1].job_id], sweep[t].job_dict[j]))
          /\ log' = [log EXCEPT ![t] = <<Call("read_record", j, "", TRUE)>>]
    /\ UNCHANGED <<db, k8s, pods, h, faults, ext, rv>>

\* Lines 266-267: nothing left: return resource_version.
FrFinish(t) ==
    /\ frame[t].pc = "fr_loop"
    /\ DOMAIN sweep[t].batch = {}
    /\ sweep[t].remaining = {}
    /\ DOMAIN sweep[t].job_dict = {}
    /\ SetFrame(t, [frame[t] EXCEPT !.pc = "fr_done"])
    /\ UNCHANGED <<db, k8s, pods, sweep, log, h, faults, ext, rv>>

\* full_reconcile returns to line 65 (the cursor is kept), line 88 (the value is
\* dropped) or the direct caller.
FrReturn(t) ==
    /\ frame[t].pc = "fr_done"
    /\ SetFrame(t, [IdleFrame EXCEPT !.pc =
                      CASE sweep[t].caller = "init" -> "start_listener"
                        [] sweep[t].caller = "periodic" -> "sleep"
                        [] OTHER -> "idle"])
    /\ rv' = IF sweep[t].caller = "init"
             THEN [rv EXCEPT !.init = sweep[t].resource_version] ELSE rv
    /\ sweep' = [sweep EXCEPT ![t] = IdleSweep]
    /\ UNCHANGED <<db, k8s, pods, log, h, faults, ext>>

\* An exception leaves full_reconcile: nothing in __init__ (line 65) or in
\* start_full_reconcile_task (lines 86-88) catches it.
FrRaise(t) ==
    /\ frame[t].pc = "fr_raised"
    /\ SetFrame(t, [IdleFrame EXCEPT !.pc =
                      IF sweep[t].caller \in {"init", "periodic"} THEN "crashed" ELSE "idle"])
    /\ sweep' = [sweep EXCEPT ![t] = IdleSweep]
    /\ UNCHANGED <<db, k8s, pods, log, h, faults, ext, rv>>

\* reconcile_state returns to its caller: the sweep's loops (lines 258, 264), the
\* watch loop (line 218), the pub/sub handler (line 300) or the direct caller.
RsReturn(t) ==
    /\ frame[t].pc = "rs_done"
    /\ SetFrame(t, [IdleFrame EXCEPT !.pc =
                      CASE frame[t].caller = "fr" -> "fr_loop"
                        [] frame[t].caller = "watch" -> "mj_stream"
                        [] OTHER -> "idle"])
    /\ log' = [log EXCEPT ![t] = IF frame[t].caller = "direct" THEN @ ELSE <<>>]
    /\ h' = IF frame[t].caller = "direct" THEN [h EXCEPT !.seen = frame[t].db_entry] ELSE h
    /\ UNCHANGED <<db, k8s, pods, sweep, faults, ext, rv>>

\* The AttributeError of line 149 leaves reconcile_state: the sweep does not
\* catch it, monitor_jobs logs it (lines 228-231) and returns to the loop of
\* lines 82-83; in the listener it ends the callback.
RsRaise(t) ==
    /\ frame[t].pc = "rs_raised"
    /\ \E next \in {"idle", "crashed"} :
          /\ next = "crashed" => frame[t].caller = "handler"
          /\ SetFrame(t, [IdleFrame EXCEPT !.pc =
                            CASE frame[t].caller = "fr" -> "fr_raised"
                              [] frame[t].caller = "watch" -> "mj_start"
                              [] OTHER -> next])
    /\ log' = [log EXCEPT ![t] = IF frame[t].caller = "direct" THEN @ ELSE <<>>]
    /\ h' = IF frame[t].caller = "direct" THEN [h EXCEPT !.seen = frame[t].db_entry] ELSE h
    /\ UNCHANGED <<db, k8s, pods, sweep, faults, ext, rv>>

FrStep(t) ==
    \/ FrList(t) \/ FrScan(t) \/ FrYield(t) \/ FrResidual(t) \/ FrFinish(t)
    \/ FrReturn(t) \/ FrRaise(t)

\* ------------------------------------------------- direct calls (the driver)
\* h.run counts the direct reconcile_state calls in a row for one job_id that
\* pass the same kinds of hints (h.flags), each hint read as the call is made.
NoArgs == [job_id |-> "", db_entry |-> EmptyRec, k8s_entry |-> <<>>]

\* reconcile_state(job_id, record, orch_job) called as the producers call it: the
\* record hint is the record just read (lines 217, 299) or none, the job hint is
\* the job as it is now (line 218) or none (line 300).
DirectCall(j, use_db, use_k8s) ==
    LET args == [job_id |-> j,
                 db_entry |-> IF use_db THEN db[j] ELSE EmptyRec,
                 k8s_entry |-> IF use_k8s THEN k8s[generate_k8s_job_name(j)] ELSE <<>>]
    IN  /\ frame["main"].pc = "idle"
        /\ h.calls < MaxCalls
        /\ SetFrame("main", BeginCall("direct", j, args.db_entry, args.k8s_entry))
        /\ h' = [calls |-> h.calls + 1, last |-> args, prev_log |-> log["main"],
                 repeat |-> FALSE, seen |-> h.seen, reaped |-> h.reaped,
                 flags |-> <<use_db, use_k8s>>,
                 run |-> IF h.run > 0 /\ h.last.job_id = j /\ h.flags = <<use_db, use_k8s>>
                         THEN h.run + 1 ELSE 1]
        /\ log' = [log EXCEPT !["main"] = <<>>]
        /\ UNCHANGED <<db, k8s, pods, sweep, faults, ext, rv>>

\* The same call again, with the very arguments of the call before.
RepeatCall ==
    /\ frame["main"].pc = "idle"
    /\ h.calls < MaxCalls
    /\ h.last # NoArgs
    /\ SetFrame("main", BeginCall("direct", h.last.job_id, h.last.db_entry,
                                  h.last.k8s_entry))
    /\ h' = [h EXCEPT !.calls = @ + 1, !.prev_log = log["main"], !.repeat = TRUE,
                      !.run = 0]
    /\ log' = [log EXCEPT !["main"] = <<>>]
    /\ UNCHANGED <<db, k8s, pods, sweep, faults, ext, rv>>

\* full_reconcile() called directly.
DirectSweep ==
    /\ frame["main"].pc = "idle"
    /\ h.calls < MaxCalls
    /\ BeginSweep("main", "direct")
    /\ h' = [calls |-> h.calls + 1, last |-> NoArgs, prev_log |-> <<>>, repeat |-> FALSE,
             seen |-> EmptyRec, reaped |-> h.reaped, flags |-> <<FALSE, FALSE>>,
             run |-> 0]
    /\ log' = [log EXCEPT !["main"] = <<>>]
    /\ UNCHANGED <<db, k8s, pods, faults, ext, rv>>

\* ------------------------------------------------------------ environment
QueuedRecord(params) ==
    IF params = "" THEN write_field(EmptyRec, "status", "QUEUED")
    ELSE write_field(write_field(EmptyRec, "status", "QUEUED"), "parameters", params)

\* A user places a job intent into the registry.
ExtSubmit(j, params) ==
    /\ ext < MaxExt
    /\ db[j] = EmptyRec
    /\ db' = [db EXCEPT ![j] = QueuedRecord(params)]
    /\ ext' = ext + 1
    /\ h' = [h EXCEPT !.reaped = @ \ {j}]
    /\ UNCHANGED <<k8s, pods, frame, sweep, log, faults, rv>>

\* A user cancels a job that is not finished.
ExtCancel(j) ==
    /\ ext < MaxExt
    /\ db[j] # EmptyRec
    /\ DbState(db[j]) \notin COMPLETED_STATES
    /\ db' = [db EXCEPT ![j] = write_field(@, "status", "CANCELED")]
    /\ ext' = ext + 1
    /\ h' = [h EXCEPT !.reaped = @ \ {j}]
    /\ UNCHANGED <<k8s, pods, frame, sweep, log, faults, rv>>

\* A user removes a record.
ExtRemove(j) ==
    /\ ext < MaxExt
    /\ db[j] # EmptyRec
    /\ db' = [db EXCEPT ![j] = EmptyRec]
    /\ ext' = ext + 1
    /\ h' = [h EXCEPT !.reaped = @ \ {j}]
    /\ UNCHANGED <<k8s, pods, frame, sweep, log, faults, rv>>

PodsOf(st) ==
    IF ~st.start_time THEN <<>>
    ELSE IF st.succeeded > 0 THEN <<"run;ok;">>
    ELSE IF st.failed > 0 THEN <<"run;err;">> ELSE <<"run;">>

\* The orchestrator moves a job: it starts, then succeeds or fails.
JobProgress(n) ==
    /\ k8s[n] # <<>>
    /\ \E st \in StatusBlocks :
          /\ \/ ~k8s[n][1].status.start_time /\ st.start_time
                   /\ st.succeeded = 0 /\ st.failed = 0
             \/ k8s_job_status_to_enum(k8s[n][1].status) = "RUNNING"
                   /\ st.succeeded + st.failed = 1
          /\ k8s' = [k8s EXCEPT ![n] = <<[@[1] EXCEPT !.status = st]>>]
          /\ pods' = [pods EXCEPT ![n] = PodsOf(st)]
    /\ UNCHANGED <<db, frame, sweep, log, h, faults, ext, rv>>

\* Background propagation: the pods of a deleted job go some time later.
PodGC(n) ==
    /\ k8s[n] = <<>>
    /\ pods[n] # <<>>
    /\ pods' = [pods EXCEPT ![n] = <<>>]
    /\ UNCHANGED <<db, k8s, frame, sweep, log, h, faults, ext, rv>>

\* The namespace changes, and the orchestrator forgets old resource versions.
RvAdvance ==
    /\ rv.cur < MaxRv
    /\ rv' = [rv EXCEPT !.cur = @ + 1]
    /\ UNCHANGED <<db, k8s, pods, frame, sweep, log, h, faults, ext>>

RvCompact ==
    /\ rv.oldest < rv.cur
    /\ rv' = [rv EXCEPT !.oldest = rv.cur]
    /\ UNCHANGED <<db, k8s, pods, frame, sweep, log, h, faults, ext>>

\* What users submit in the specifications below: with or without parameters.
SubmitBlobs == {"{\"num_gpus\": 2}", ""}

\* ------------------------------------------------------- Watcher.__init__
\* Line 65: resource_version = self.full_reconcile()
MainInit ==
    /\ frame["main"].pc = "init"
    /\ BeginSweep("main", "init")
    /\ UNCHANGED <<db, k8s, pods, log, h, faults, ext, rv>>

\* RedisHelper.start_listener, which is not among the sources: whether the call
\* keeps its caller (it delivers the messages itself) or returns (a thread of its
\* own delivers them).
start_listener_blocks == BOOLEAN

\* Lines 67-72: start_listener(handler) is called in the constructor and its
\* result becomes the thread's target.  The listener delivers messages from
\* then on; the call either returns or keeps the constructor inside it.
StartListener ==
    /\ frame["main"].pc = "start_listener"
    /\ \E blocks \in start_listener_blocks :
          frame' = [frame EXCEPT !["main"].pc = IF blocks THEN "in_listener" ELSE "sleep",
                                 !["listener"].pc = "idle"]
    /\ UNCHANGED <<db, k8s, pods, sweep, log, h, faults, ext, rv>>

\* Lines 75-79 and 85-88: start_full_reconcile_task(interval) is called in the
\* constructor: sleep, full_reconcile(), for ever.
Sleep ==
    /\ frame["main"].pc = "sleep"
    /\ h.calls < MaxCalls
    /\ h' = [h EXCEPT !.calls = @ + 1]
    /\ BeginSweep("main", "periodic")
    /\ UNCHANGED <<db, k8s, pods, log, faults, ext, rv>>

\* Lines 296-300: a pub/sub message for job_id: read the record, reconcile.
DbUpdateEvent(j) ==
    /\ frame["listener"].pc = "idle"
    /\ h.calls < MaxCalls
    /\ h' = [h EXCEPT !.calls = @ + 1]
    /\ SetFrame("listener", BeginCall("handler", j, db[j], <<>>))
    /\ log' = [log EXCEPT !["listener"] = <<Call("read_record", j, "", TRUE)>>]
    /\ UNCHANGED <<db, k8s, pods, sweep, faults, ext, rv>>

\* ------------------------------------------------------------ monitor_jobs
\* Lines 82-83 and 204-211: monitor_jobs(resource_version) with the constructor's
\* resource_version; the stream starts at that version.
MjStart ==
    /\ frame["main"].pc = "mj_start"
    /\ rv' = [rv EXCEPT !.local = rv.init]
    /\ SetFrame("main", [IdleFrame EXCEPT !.pc = "mj_stream"])
    /\ UNCHANGED <<db, k8s, pods, sweep, log, h, faults, ext>>

\* Lines 213-218: an event: keep its resource version, read the record, reconcile.
MjEvent(n) ==
    /\ frame["main"].pc = "mj_stream"
    /\ rv.local >= rv.oldest
    /\ k8s[n] # <<>>
    /\ rv' = [rv EXCEPT !.local = rv.cur]
    /\ SetFrame("main", BeginCall("watch", k8s[n][1].job_id, db[k8s[n][1].job_id], k8s[n]))
    /\ log' = [log EXCEPT !["main"] = <<Call("read_record", k8s[n][1].job_id, "", TRUE)>>]
    /\ UNCHANGED <<db, k8s, pods, sweep, h, faults, ext>>

\* Line 220: the stream raises ApiException with status 410: the version is gone.
MjGone ==
    /\ frame["main"].pc = "mj_stream"
    /\ rv.local < rv.oldest
    /\ SetFrame("main", [frame["main"] EXCEPT !.pc = "mj_gone"])
    /\ UNCHANGED <<db, k8s, pods, sweep, log, h, faults, ext, rv>>

\* Lines 221-227: status is 410, so line 226 runs: "..." + e with e an
\* ApiException raises TypeError inside the handler; full_reconcile of line 227
\* is not reached and the TypeError leaves monitor_jobs and the loop of
\* lines 82-83.
MjGoneHandler ==
    /\ frame["main"].pc = "mj_gone"
    /\ SetFrame("main", [frame["main"] EXCEPT !.pc = "crashed"])
    /\ UNCHANGED <<db, k8s, pods, sweep, log, h, faults, ext, rv>>

\* Lines 220-224: an ApiException with another status is raised again.
MjApiError ==
    /\ frame["main"].pc = "mj_stream"
    /\ faults < MaxFaults
    /\ faults' = faults + 1
    /\ SetFrame("main", [frame["main"] EXCEPT !.pc = "crashed"])
    /\ UNCHANGED <<db, k8s, pods, sweep, log, h, ext, rv>>

\* Lines 228-231: any other exception is logged; monitor_jobs returns and the
\* loop calls it again with the constructor's resource_version.
MjOtherError ==
    /\ frame["main"].pc = "mj_stream"
    /\ faults < MaxFaults
    /\ faults' = faults + 1
    /\ SetFrame("main", [frame["main"] EXCEPT !.pc = "mj_start"])
    /\ UNCHANGED <<db, k8s, pods, sweep, log, h, ext, rv>>

\* ---------------------------------------------------------- initial states
Rec(status, deleted, params) ==
    [f \in {x \in {"status", "deleted", "parameters"} :
               \/ x = "status" /\ status # ""
               \/ x = "deleted" /\ deleted # ""
               \/ x = "parameters" /\ params # ""}
        |-> CASE f = "status" -> status [] f = "deleted" -> deleted [] OTHER -> params]

\* Every record over status, deleted and parameters, the absent record included.
InitRecords ==
    {Rec(s, d, p) : s \in (TrainingStatus \ {"PLACEHOLDER_UNSET"}) \cup {""},
                    d \in {"", "1"}, p \in ParamBlobs \cup {""}}

JobIn(j, st) == [JobBody(j, default_gpu, PyDict({})) EXCEPT !.status = st]
InitJobs(j) == {<<>>} \cup {<<JobIn(j, st)>> : st \in StatusBlocks}
PodsFor(job) == IF job = <<>> THEN <<>> ELSE PodsOf(job[1].status)

InitRest(mainpc, faults0) ==
    /\ frame = [t \in Threads |->
                  [IdleFrame EXCEPT !.pc = IF t = "main" THEN mainpc ELSE "off"]]
    /\ sweep = [t \in Threads |-> IdleSweep]
    /\ log = [t \in Threads |-> <<>>]
    /\ h = [calls |-> 0, last |-> NoArgs, prev_log |-> <<>>, repeat |-> FALSE,
            seen |-> EmptyRec, reaped |-> {}, flags |-> <<FALSE, FALSE>>, run |-> 0]
    /\ faults = faults0
    /\ ext = 0
    /\ rv = [cur |-> 0, oldest |-> 0, init |-> 0, local |-> 0]

\* A job left in the namespace without a record: an orphan.
OrphanJob(j) == <<JobIn(j, [start_time |-> TRUE, succeeded |-> 0, failed |-> 0])>>

\* The conductor starts on an empty registry; the namespace is empty or holds an
\* orphan job of B.  The orchestrator's calls fail only where the stores make
\* them fail (no job of that name, name taken), the transient failures being
\* spent.
Init ==
    /\ db = [j \in JobIds |-> EmptyRec]
    /\ \E jb \in {<<>>, OrphanJob("B")} :
          /\ k8s = [n \in Names |-> IF n = generate_k8s_job_name("B") THEN jb ELSE <<>>]
          /\ pods = [n \in Names |-> PodsFor(IF n = generate_k8s_job_name("B") THEN jb ELSE <<>>)]
    /\ InitRest("init", MaxFaults)

\* Any drifted pair (record, job) for A; B is absent or an orphan job.
InitWorld ==
    /\ \E ra \in InitRecords : db = [j \in JobIds |-> IF j = "A" THEN ra ELSE EmptyRec]
    /\ \E ja \in InitJobs("A"), jb \in {<<>>, OrphanJob("B")} :
          /\ k8s = [n \in Names |-> IF n = generate_k8s_job_name("A") THEN ja ELSE jb]
          /\ pods = [n \in Names |-> PodsFor(IF n = generate_k8s_job_name("A") THEN ja ELSE jb)]

InitCall == InitWorld /\ InitRest("idle", 0)

InitWatch == InitWorld /\ InitRest("mj_start", 0)

\* --------------------------------------------------------- specifications
\* The program as Watcher.__init__ runs it, with its environment.
Next ==
    \/ \E t \in Threads : RsStep(t) \/ FrStep(t) \/ RsReturn(t) \/ RsRaise(t)
    \/ MainInit \/ StartListener \/ Sleep
    \/ DbUpdateEvent("A")
    \/ \E params \in SubmitBlobs : ExtSubmit("A", params)
    \/ ExtCancel("A")
    \/ JobProgress(generate_k8s_job_name("A")) \/ PodGC(generate_k8s_job_name("A"))

Spec == Init /\ [][Next]_vars

\* reconcile_state (for A, whose record and job start in any combination) and
\* full_reconcile (over A and B) called one after the other, nothing else acting
\* in between.
NextCall ==
    \/ RsStep("main") \/ FrStep("main") \/ RsReturn("main") \/ RsRaise("main")
    \/ \E use_db \in BOOLEAN, use_k8s \in BOOLEAN : DirectCall("A", use_db, use_k8s)
    \/ RepeatCall
    \/ DirectSweep

SpecCall == InitCall /\ [][NextCall]_vars

\* monitor_jobs under the loop of lines 82-83, with its environment.
NextWatch ==
    \/ MjStart \/ MjGone \/ MjGoneHandler \/ MjApiError \/ MjOtherError
    \/ \E n \in Names : MjEvent(n)
    \/ RsReadRecord("main") \/ DjCall("main") \/ DjWrite("main")
    \/ RsWriteStatus("main") \/ CapLogs("main") \/ CapWrite("main")
    \/ RsReturn("main")
    \/ ExtCancel("A") \/ JobProgress(generate_k8s_job_name("A"))
    \/ RvAdvance \/ RvCompact

SpecWatch == InitWatch /\ [][NextWatch]_vars

\* ------------------------------------------------------------------ claims
\* The direct call in progress or just ended, and its remote calls so far.
F == frame["main"]
L == log["main"]
AtEnd == F.caller = "direct" /\ F.pc \in {"rs_done", "rs_raised"}
Returned == F.caller = "direct" /\ F.pc = "rs_done"
OpsOf(l, op) == {i \in 1..Len(l) : l[i].op = op}
WritesOf(l, field) == {i \in 1..Len(l) : l[i].op = "write_field" /\ l[i].key = field}
IsEffect(c) == c.op \in {"create_job", "delete_job", "write_field"}
Effects(l) == SelectSeq(l, IsEffect)

\* Section 4.1 of the specification: the status mapper's rules, in order.
SpecMapped(st) ==
    CASE ~st.start_time -> "QUEUED"
      [] st.start_time /\ st.succeeded > 0 -> "COMPLETED"
      [] st.start_time /\ st.succeeded = 0 /\ st.failed > 0 -> "FAILED"
      [] OTHER -> "RUNNING"

\* C1 (as claimed): a reconcile_state call that began with a record of
\* non-terminal status and no orchestrator job has issued exactly one create, for
\* the derived name, when it ends; and if the create succeeded the record has
\* status PENDING and job_name, namespace and submission_timestamp.  The code
\* raises AttributeError before create_job when the parameters are missing or
\* corrupt, so TLC finds this violated.
C1_ColdLaunch ==
    (AtEnd /\ F.e_rec # EmptyRec /\ DbState(F.e_rec) \notin COMPLETED_STATES
           /\ F.e_job = <<>>)
    => /\ Cardinality(OpsOf(L, "create_job")) = 1
       /\ \A i \in OpsOf(L, "create_job") :
             /\ L[i].key = generate_k8s_job_name(F.job_id)
             /\ L[i].ok => /\ DbState(db[F.job_id]) = "PENDING"
                           /\ {"job_name", "namespace", "submission_timestamp"}
                                 \subseteq DOMAIN db[F.job_id]

\* C2: when a reconcile_state call ends that had an orchestrator job (hinted or
\* read), saw a record status other than CANCELED, and the status the
\* specification's mapper gives the job differs from that record status, the
\* record's status in the registry is the mapped status.
C2_StatusCatchUp ==
    (AtEnd /\ F.k8s_entry # <<>> /\ DbState(F.db_entry) # "CANCELED"
           /\ SpecMapped(F.k8s_entry[1].status) # DbState(F.db_entry))
    => DbState(db[F.job_id]) = SpecMapped(F.k8s_entry[1].status)

\* A PENDING record with a started, not finished job has become RUNNING.
C2_Witness ==
    /\ AtEnd
    /\ DbState(F.db_entry) = "PENDING"
    /\ F.k8s_entry # <<>>
    /\ F.k8s_entry[1].status = [start_time |-> TRUE, succeeded |-> 0, failed |-> 0]
    /\ DbState(db[F.job_id]) = "RUNNING"

\* C3: when a reconcile_state call ends that saw record status CANCELED and had an
\* orchestrator job (hinted or read), it has issued a delete of that job with
\* background propagation; if the delete succeeded the record has deleted = "1";
\* and the call wrote no status and captured no diagnostics.
C3_Cancel ==
    (AtEnd /\ DbState(F.db_entry) = "CANCELED" /\ F.k8s_entry # <<>>)
    => /\ \E i \in OpsOf(L, "delete_job") :
             /\ L[i].key = F.k8s_entry[1].name
             /\ L[i].val = "Background"
             /\ L[i].ok => Truthy(db[F.job_id], "deleted") /\ db[F.job_id]["deleted"] = "1"
       /\ WritesOf(L, "status") = {}
       /\ WritesOf(L, "errors") = {}
       /\ OpsOf(L, "list_pods") = {}

\* A cancel whose job was found by the lazy read and deleted.
C3_Witness ==
    /\ AtEnd
    /\ DbState(F.db_entry) = "CANCELED"
    /\ F.k8s_entry # <<>>
    /\ OpsOf(L, "read_job") # {}
    /\ \E i \in OpsOf(L, "delete_job") : L[i].ok
    /\ db[F.job_id]["deleted"] = "1"
    /\ k8s[F.k8s_entry[1].name] = <<>>

\* The case of C4: a terminal job, and a record that is there, is not CANCELED
\* and has deleted unset.
C4_Case ==
    /\ F.k8s_entry # <<>>
    /\ k8s_job_status_to_enum(F.k8s_entry[1].status) \in {"COMPLETED", "FAILED"}
    /\ F.db_entry # EmptyRec
    /\ DbState(F.db_entry) # "CANCELED"
    /\ ~Truthy(F.db_entry, "deleted")

C5_OrphanReaping ==
    \A t \in Threads :
        frame[t].pc \in {"fr_done", "fr_raised"}
        => \A j \in sweep[t].orphans : generate_k8s_job_name(j) \in sweep[t].reaped

\* C6 (as claimed): no step of the conductor takes a record's status from
\* COMPLETED_STATES to a non-terminal status.  A hint read before an external
\* cancel, and create_job's PENDING write, do, so TLC finds this violated.
C6_MonotoneStatus ==
    [][\A j \in JobIds :
          (db[j] # EmptyRec /\ DbState(db[j]) \in COMPLETED_STATES /\ ext' = ext)
          => DbState(db'[j]) \in COMPLETED_STATES]_vars

\* C7 (as claimed): a second reconcile_state call with the arguments of the first,
\* no API call failing transiently, issues no create after the first's, no
\* delete after the first's, and no status write with a value the first did not
\* write.  The cancel and orphan rows delete again, so TLC finds this violated.
C7_Idempotence ==
    (AtEnd /\ h.repeat /\ faults = 0)
    => /\ ~(OpsOf(h.prev_log, "create_job") # {} /\ OpsOf(L, "create_job") # {})
       /\ ~(OpsOf(h.prev_log, "delete_job") # {} /\ OpsOf(L, "delete_job") # {})
       /\ \A i \in WritesOf(L, "status") :
             \A k \in WritesOf(h.prev_log, "status") : L[i].val = h.prev_log[k].val

\* C8 (as claimed): after MaxCalls - 1 reconcile_state calls for one job_id, made
\* the same way, with nothing else acting and no API call failing transiently, a
\* further such call issues no create, no delete and no registry write.  With no record and no job
\* every call issues a delete, so TLC finds this violated.
C8_Convergence ==
    (AtEnd /\ h.run = MaxCalls /\ faults = 0) => Effects(L) = <<>>

\* The positions inside reconcile_state and the operations it calls.
InReconcile(t) ==
    frame[t].pc \in {"rs_read_record", "dj_call", "dj_write", "rs_read_job", "rs_settle",
                     "cj_create", "cj_w_ts", "cj_w_name", "cj_w_ns", "cj_w_status",
                     "rs_write_status", "cap_logs", "cap_write"}

\* C9 (as claimed): no two threads are inside reconcile_state for the same job_id,
\* no two create calls for a job_id are about to be issued at once, and no create
\* is rejected because the orchestrator already has the job.  Nothing in the code
\* serialises the listener's handler and the sweep, so TLC finds this violated.
C9_UniqueMaterialisation ==
    /\ \A t1, t2 \in Threads :
          (t1 # t2 /\ InReconcile(t1) /\ InReconcile(t2))
          => frame[t1].job_id # frame[t2].job_id
    /\ \A t \in Threads : \A i \in OpsOf(log[t], "create_job") : log[t][i].ok

\* C10 (as claimed): after the watch has failed with the 410 signal, the next
\* step is the start of a full sweep.  Line 226 raises TypeError before line 227,
\* so TLC finds this violated.
C10_StaleCursor ==
    [][frame["main"].pc = "mj_gone" => frame'["main"].pc = "fr_list"]_vars

\* C11 (as claimed): the three producers run side by side, so the constructor's
\* thread, which has still to start the watch (lines 82-83), is never kept inside
\* start_listener and never runs the loop of start_full_reconcile_task itself.
\* Lines 69 and 77 call these functions where a thread target is expected, so
\* TLC finds this violated.
C11_ProducersConcurrent ==
    /\ frame["main"].pc \notin {"in_listener", "sleep"}
    /\ sweep["main"].caller # "periodic"

\* C12 (as claimed): no step of monitor_jobs other than the 410 handler ends the
\* loop of lines 82-83: every other error leads back to the start of the watch.
\* Line 224 raises an ApiException of another status again and nothing catches
\* it, so TLC finds this violated.
C12_WatchErrorContainment ==
    [][(frame["main"].pc # "mj_gone" /\ frame["main"].pc # "crashed")
          => frame'["main"].pc # "crashed"]_vars

\* The parameters of a record do not decode: the field is missing or empty, or
\* json.loads rejects it.
BadParams(db_entry) ==
    \/ ~Truthy(db_entry, "parameters")
    \/ ~JsonLoads(db_entry["parameters"]).ok

\* C13 (as claimed): a reconcile_state call in the Launch case (a record of
\* non-terminal status, no job hint, the lazy read finding no job) whose record's
\* parameters do not decode returns without raising, having issued the create
\* with the default GPU count and an empty parameters payload.  env_vars stays
\* the str "" and line 149 raises AttributeError, so TLC finds this violated.
C13_PayloadDecode ==
    (/\ AtEnd
     /\ F.db_entry # EmptyRec
     /\ DbState(F.db_entry) \notin COMPLETED_STATES
     /\ \E i \in OpsOf(L, "read_job") : ~L[i].ok
     /\ BadParams(F.db_entry))
    => /\ F.pc = "rs_done"
       /\ OpsOf(L, "create_job") # {}
       /\ F.gpus = default_gpu
       /\ F.env = PyDict({})

\* C14 (as claimed): a reconcile_state call for a job_id that has no record, made
\* without a record hint, writes no field, and the job_id has no record when the
\* call ends.  delete_job writes deleted = "1" at line 276 whatever the record,
\* and the call goes on to lines 107-179 with an empty record, so TLC finds this
\* violated.
C14_NoWriteWithoutRecord ==
    (AtEnd /\ F.e_rec = EmptyRec /\ F.db_entry = EmptyRec)
    => /\ OpsOf(L, "write_field") = {}
       /\ db[F.job_id] = EmptyRec

\* A create of this log was rejected or failed.
FailedCreate(l) == \E i \in OpsOf(l, "create_job") : ~l[i].ok

\* What C15 says of the call whose create failed (a transient failure, or the
\* name being taken): it returns without raising, has written no field, and
\* leaves the record as it was.
C15_NoWriteOnFailure ==
    (AtEnd /\ FailedCreate(L))
    => /\ F.pc = "rs_done"
       /\ OpsOf(L, "write_field") = {}
       /\ db[F.job_id] = F.e_rec

S == sweep["main"]
VisitsOf(j) == {i \in 1..Len(S.visited) : S.visited[i].job_id = j}

\* What C16 says of a sweep's calls: every job_id that had a record or a listed
\* job when the sweep listed the jobs is reconciled exactly once; one with a
\* listed job gets that job as hint; one without a record is reconciled from the
\* residual loop, after every call of the scan loop.
SweepCovers ==
    \A j \in S.keys \cup DOMAIN S.listed :
        /\ Cardinality(VisitsOf(j)) = 1
        /\ \A i \in VisitsOf(j) :
              /\ S.visited[i].hint = (IF j \in DOMAIN S.listed THEN S.listed[j] ELSE <<>>)
              /\ j \in S.keys => S.visited[i].loop = "scan"
              /\ j \notin S.keys
                    => /\ S.visited[i].loop = "residual"
                       /\ \A k \in 1..Len(S.visited) :
                             S.visited[k].loop = "scan" => k < i

\* C16 (as claimed): when one full_reconcile ends, it has made those calls.  A
\* record without status (TypeError, line 256) or without parameters
\* (AttributeError, line 149) ends the sweep early, so TLC finds this violated.
C16_FullSweepCoverage ==
    (F.pc \in {"fr_done", "fr_raised"} /\ S.caller = "direct") => SweepCovers

\* C17 (as claimed): no step of the conductor changes a record's status from
\* CANCELED to another status.  reconcile_state compares with the record it was
\* handed (lines 107, 158) and writes at line 175 over a cancel made since, so
\* TLC finds this violated.
C17_CancelHonoured ==
    [][\A j \in JobIds :
          (DbState(db[j]) = "CANCELED" /\ ext' = ext) => DbState(db'[j]) = "CANCELED"]_vars

\* The place of a status in QUEUED -> PENDING -> RUNNING -> {COMPLETED, FAILED}.
StatusOrder ==
    [QUEUED |-> 1, PENDING |-> 2, RUNNING |-> 3, COMPLETED |-> 4, FAILED |-> 4]

\* C18 (as claimed): with no external writer, no step moves a record's status to
\* an earlier element of that order.  A job that has not started maps to QUEUED
\* (line 286), which line 175 writes over PENDING, so TLC finds this violated.
C18_StatusOrder ==
    [][\A j \in JobIds :
          (/\ DbState(db[j]) \in DOMAIN StatusOrder
           /\ DbState(db'[j]) \in DOMAIN StatusOrder)
          => StatusOrder[DbState(db'[j])] >= StatusOrder[DbState(db[j])]]_vars

\* The case of C19: a call made without job hint that sees a record whose status
\* is in COMPLETED_STATES.
C19_Case ==
    /\ AtEnd
    /\ h.last.k8s_entry = <<>>
    /\ F.db_entry # EmptyRec
    /\ DbState(F.db_entry) \in COMPLETED_STATES

\* What C19 says of the two rows: with deleted set the call makes no registry
\* write and no orchestrator call; with deleted unset and the lazy read finding
\* no job, its only effect is the write of deleted = "1".
C19_Rows ==
    C19_Case
    => /\ Truthy(F.db_entry, "deleted")
          => /\ Effects(L) = <<>>
             /\ OpsOf(L, "read_job") = {}
             /\ OpsOf(L, "list_pods") = {}
       /\ (~Truthy(F.db_entry, "deleted") /\ \E i \in OpsOf(L, "read_job") : ~L[i].ok)
          => Effects(L) = <<Call("write_field", "deleted", "1", TRUE)>>

\* C19 (as claimed): in that case the call never issues a create or a delete.
\* With deleted unset and the job found by the lazy read, the cancel and
\* finalise steps delete it, so TLC finds this violated.
C19_AsClaimed ==
    /\ C19_Rows
    /\ C19_Case => OpsOf(L, "create_job") = {} /\ OpsOf(L, "delete_job") = {}

\* C19 (amended): in that case the call never issues a create, and issues a
\* delete only when deleted is unset and the lazy read has found a job; the two
\* rows are as claimed.
C19_SettleQuiescent ==
    /\ C19_Rows
    /\ C19_Case
       => /\ OpsOf(L, "create_job") = {}
          /\ OpsOf(L, "delete_job") # {}
                => /\ ~Truthy(F.db_entry, "deleted")
                   /\ \E i \in OpsOf(L, "read_job") : L[i].ok

\* Settle: a COMPLETED record without deleted, no job: deleted = "1" is written.
C19_Witness ==
    /\ C19_Case
    /\ DbState(F.db_entry) = "COMPLETED"
    /\ ~Truthy(F.db_entry, "deleted")
    /\ \E i \in OpsOf(L, "read_job") : ~L[i].ok
    /\ Effects(L) = <<Call("write_field", "deleted", "1", TRUE)>>
    /\ db[F.job_id]["deleted"] = "1"

\* C20 (as claimed): no create is issued for a job_id whose job the conductor has
\* deleted and marked deleted = "1", unless an external actor has written the
\* record since.  A reconcile handed a record read before the reaping (line 240
\* against line 258) finds no job and launches it again, so TLC finds this
\* violated.
C20_NoReRun ==
    [][\A t \in Threads :
          (frame[t].pc = "cj_create" /\ Len(log'[t]) = Len(log[t]) + 1)
          => frame[t].job_id \notin h.reaped]_vars


====
